---- MODULE Spec2Model ----
(***************************************************************************)
(* ReferenceGenome (src/src/reference_genome.rs): an in-memory store of    *)
(* named contigs, built empty or loaded from a FASTA file (plain or gzip), *)
(* grown by add_contig and read by get_slice / get_full_chromosome.        *)
(*                                                                         *)
(* Bytes are integers 0..255, strings and byte buffers are sequences of    *)
(* bytes, a path is a sequence of one-character strings.                   *)
(***************************************************************************)
EXTENDS Integers, Sequences, FiniteSets, TLC

VARIABLES pc, filename, contig_keys, contig_map, result

vars == <<pc, filename, contig_keys, contig_map, result>>

(***************************************************************************)
(* Bounds of the model.                                                    *)
(***************************************************************************)
\* longest sequence handed to add_contig
MaxSeqLen == 1
\* most records in a FASTA file
MaxRecords == 2

(***************************************************************************)
(* Generic helpers.                                                        *)
(***************************************************************************)
SeqsUpTo(S, n) == UNION {[1..k -> S] : k \in 0..n}

Min(a, b) == IF a <= b THEN a ELSE b

IsPrefix(s, t) == Len(s) <= Len(t) /\ SubSeq(t, 1, Len(s)) = s

Range(s) == {s[i] : i \in 1..Len(s)}

\* sums and concatenations, by halves
RECURSIVE Sum(_)
Sum(s) ==
    IF Len(s) = 0 THEN 0
    ELSE IF Len(s) = 1 THEN s[1]
    ELSE Sum(SubSeq(s, 1, Len(s) \div 2))
         + Sum(SubSeq(s, (Len(s) \div 2) + 1, Len(s)))

RECURSIVE Flatten(_)
Flatten(ss) ==
    IF Len(ss) = 0 THEN <<>>
    ELSE IF Len(ss) = 1 THEN ss[1]
    ELSE Flatten(SubSeq(ss, 1, Len(ss) \div 2))
         \o Flatten(SubSeq(ss, (Len(ss) \div 2) + 1, Len(ss)))

(***************************************************************************)
(* HashMap<String, Vec<u8>>: a function from a finite set of keys.         *)
(***************************************************************************)
EmptyMap == [k \in {} |-> <<>>]

contains_key(map, key) == key \in DOMAIN map

\* HashMap::insert: the value of an existing key is replaced
insert(map, key, value) ==
    [k \in (DOMAIN map) \cup {key} |-> IF k = key THEN value ELSE map[k]]

(***************************************************************************)
(* u8::to_ascii_uppercase and its lifting to strings and byte slices:      *)
(* 'a'..'z' (97..122) become 'A'..'Z' (65..90); every other byte is kept.  *)
(***************************************************************************)
\* a variant that misses the lower end of the range: 'a' is left as it is
byte_to_ascii_uppercase_above_a(b) == IF b > 97 /\ b <= 122 THEN b - 32 ELSE b

byte_to_ascii_uppercase(b) == IF b >= 97 /\ b <= 122 THEN b - 32 ELSE b

to_ascii_uppercase(s) == [i \in 1..Len(s) |-> byte_to_ascii_uppercase(s[i])]

(***************************************************************************)
(* Path::extension() followed by unwrap_or_default().  Path::file_name()   *)
(* is the last component of the path when that is a normal one: empty      *)
(* components (repeated or trailing '/') and "." components are skipped,   *)
(* and a path ending in ".." (or with no component) has no file name.  The *)
(* extension is the part of the file name after its last '.', and there is *)
(* none when the file name has no '.', or only a leading one.  "No file    *)
(* name" and "no extension" are both the empty sequence here, which is     *)
(* what unwrap_or_default() compares with "gz".                            *)
(***************************************************************************)
RECURSIVE components(_)
components(path) ==
    IF path = <<>> THEN <<>>
    ELSE LET slashes == {i \in 1..Len(path) : path[i] = "/"}
             n    == IF slashes = {} THEN Len(path) + 1
                     ELSE CHOOSE i \in slashes : \A j \in slashes : i <= j
             head == SubSeq(path, 1, n - 1)
             rest == components(SubSeq(path, n + 1, Len(path)))
         IN  IF head = <<>> \/ head = <<".">> THEN rest ELSE <<head>> \o rest

\* the last of the components when that is a normal one
last_normal(cs) ==
    IF cs = <<>> \/ cs[Len(cs)] = <<".", ".">> THEN <<>> ELSE cs[Len(cs)]

file_name(path) == last_normal(components(path))

\* the part of a file name after its last '.'
after_last_dot(name) ==
    LET dots == {i \in 1..Len(name) : name[i] = "."}
        last == IF dots = {} THEN 0
                ELSE CHOOSE i \in dots : \A j \in dots : j <= i
    IN  IF last <= 1 THEN <<>> ELSE SubSeq(name, last + 1, Len(name))

extension(path) == after_last_dot(file_name(path))

(***************************************************************************)
(* 32-bit words as four bytes, least significant first, and CRC-32 (the    *)
(* checksum of the gzip trailer and header) over them.                     *)
(***************************************************************************)
Pow2(k) == IF k = 0 THEN 1 ELSE IF k = 1 THEN 2 ELSE IF k = 2 THEN 4 ELSE 8

Xor4 ==
    [a \in 0..15 |-> [b \in 0..15 |->
        Sum([k \in 1..4 |->
                (((a \div Pow2(k - 1)) + (b \div Pow2(k - 1))) % 2) * Pow2(k - 1)])]]

xor8(a, b) == 16 * Xor4[a \div 16][b \div 16] + Xor4[a % 16][b % 16]

xor32(x, y) ==
    <<xor8(x[1], y[1]), xor8(x[2], y[2]), xor8(x[3], y[3]), xor8(x[4], y[4])>>

shr1(x) ==
    <<(x[1] \div 2) + 128 * (x[2] % 2), (x[2] \div 2) + 128 * (x[3] % 2),
      (x[3] \div 2) + 128 * (x[4] % 2), x[4] \div 2>>

\* the reflected polynomial edb88320
Crc32Poly == <<32, 131, 184, 237>>

RECURSIVE crc32_rounds(_, _)
crc32_rounds(x, n) ==
    IF n = 0 THEN x
    ELSE crc32_rounds(IF x[1] % 2 = 1 THEN xor32(shr1(x), Crc32Poly) ELSE shr1(x),
                      n - 1)

Crc32Table == [i \in 0..255 |-> crc32_rounds(<<i, 0, 0, 0>>, 8)]

\* the checksum after one more byte
crc32_byte(crc, byte) ==
    xor32(<<crc[2], crc[3], crc[4], 0>>, Crc32Table[xor8(crc[1], byte)])

\* the checksum after the bytes, taken by halves: that of the second half
\* from the one, c, after the first
RECURSIVE crc32_update(_, _)
crc32_update(crc, bytes) ==
    IF Len(bytes) = 0 THEN crc
    ELSE IF Len(bytes) = 1 THEN crc32_byte(crc, bytes[1])
    ELSE CHOOSE r \in
             {crc32_update(c, SubSeq(bytes, (Len(bytes) \div 2) + 1, Len(bytes))) :
                 c \in {crc32_update(crc, SubSeq(bytes, 1, Len(bytes) \div 2))}} :
             TRUE

crc32(bytes) ==
    xor32(crc32_update(<<255, 255, 255, 255>>, bytes), <<255, 255, 255, 255>>)

le16(n) == <<n % 256, (n \div 256) % 256>>

le32(n) == le16(n % 65536) \o le16(n \div 65536)

(***************************************************************************)
(* flate2::bufread::MultiGzDecoder.  A gzip member (RFC 1952) is a header  *)
(* (magic 1f 8b, method 08, flags, mtime, xfl, os, then the optional       *)
(* fields the flags announce), a deflate stream, and a trailer of CRC-32   *)
(* and length of the data.  The decoder is lazy: a stream is the data it   *)
(* delivers and whether the read at their end fails.  The data of a member *)
(* are delivered before its trailer is checked and before the next member  *)
(* is looked at.                                                           *)
(***************************************************************************)
\* a member holding the payload in one stored block; no optional field
gz_member(payload) ==
    <<31, 139, 8, 0, 0, 0, 0, 0, 0, 255>>
    \o <<1>> \o le16(Len(payload)) \o le16(65535 - Len(payload)) \o payload
    \o crc32(payload) \o le32(Len(payload))

\* the n low bits of v, most significant first
msb_bits(v, n) == [i \in 1..n |-> (v \div (2 ^ (n - i))) % 2]

\* the code of literal c in the fixed Huffman code
fixed_code(c) == IF c < 144 THEN msb_bits(48 + c, 8) ELSE msb_bits(256 + c, 9)

\* bits into bytes, the first bit the least significant of the first byte
pack_bits(bs) ==
    [k \in 1..((Len(bs) + 7) \div 8) |->
        Sum([i \in 1..8 |-> IF 8 * (k - 1) + i <= Len(bs)
                            THEN bs[8 * (k - 1) + i] * (2 ^ (i - 1)) ELSE 0])]

\* a member holding the payload in one block of the fixed Huffman code, all
\* literals: what gzip writes for a short text
gz_member_fixed(payload) ==
    <<31, 139, 8, 0, 0, 0, 0, 0, 0, 255>>
    \o pack_bits(<<1, 1, 0>>
                 \o Flatten([i \in 1..Len(payload) |-> fixed_code(payload[i])])
                 \o <<0, 0, 0, 0, 0, 0, 0>>)
    \o crc32(payload) \o le32(Len(payload))

StreamErr == [ok |-> FALSE, data |-> <<>>]

StreamOk(data) == [ok |-> TRUE, data |-> data]

StreamFails(data) == [ok |-> FALSE, data |-> data]

HasFlag(flags, bit) == (flags \div bit) % 2 = 1

\* the most bytes of a name or a comment in a member header
MAX_HEADER_BUF == 65535

\* the index after the zero that ends the string at `pos`; 0 when none does,
\* or when more than MAX_HEADER_BUF bytes come before it
zero_end(b, pos) ==
    LET zs == {i \in pos..Len(b) : b[i] = 0} IN
    IF zs = {} \/ (\A i \in zs : i - pos > MAX_HEADER_BUF) THEN 0
    ELSE 1 + CHOOSE i \in zs : \A j \in zs : i <= j

\* The optional fields of a member header, each from the index `pos` where
\* it would start to the index after it; 0 when the header is cut short.
\* FEXTRA (flag 4): a length of two bytes and that many bytes
gz_skip_extra(b, pos) ==
    IF ~HasFlag(b[4], 4) THEN pos
    ELSE IF Len(b) < pos + 1 THEN 0
    ELSE pos + 2 + b[pos] + 256 * b[pos + 1]

\* FNAME (flag 8) and FCOMMENT (flag 16): a string ended by a zero
gz_skip_string(b, pos, bit) ==
    IF pos = 0 \/ ~HasFlag(b[4], bit) THEN pos ELSE zero_end(b, pos)

\* FHCRC (flag 2): the low two bytes of the CRC-32 of the header before it
gz_skip_hcrc(b, pos) ==
    IF pos = 0 \/ pos > Len(b) + 1 THEN 0
    ELSE IF ~HasFlag(b[4], 2) THEN pos
    ELSE IF Len(b) < pos + 1 THEN 0
    ELSE IF SubSeq(b, pos, pos + 1) # SubSeq(crc32(SubSeq(b, 1, pos - 1)), 1, 2)
         THEN 0
    ELSE pos + 2

\* the index of the first byte after the member header at the front of b,
\* 0 when the header is bad or cut short
gz_header_end(b) ==
    IF Len(b) < 10 \/ b[1] # 31 \/ b[2] # 139 \/ b[3] # 8 \/ b[4] >= 32 THEN 0
    ELSE gz_skip_hcrc(b,
             gz_skip_string(b, gz_skip_string(b, gz_skip_extra(b, 11), 8), 16))

(***************************************************************************)
(* Inflate (RFC 1951), as flate2 drives it.  The deflate stream is a       *)
(* sequence of blocks read bit by bit, least significant bit of a byte     *)
(* first: stored blocks, blocks in the fixed Huffman code and blocks that  *)
(* carry their own codes.  The decoder is a machine that goes through the  *)
(* stream in steps: the header of a block ("block"), the code lengths of a *)
(* block with its own codes, a symbol each ("lengths"), the symbols of a   *)
(* block, one each ("codes").  It ends in one of three ways: "done", after *)
(* the final block; "cut", when the input ends before that, and what was   *)
(* decoded is delivered; "fault", when the stream is no deflate stream,    *)
(* and the read that finds the fault returns the error and none of the     *)
(* bytes it had decoded, while the bytes of the reads before it have been  *)
(* delivered.                                                              *)
(***************************************************************************)
bit(b, p) == (b[(p \div 8) + 1] \div (2 ^ (p % 8))) % 2

have_bits(b, p, n) == p + n <= 8 * Len(b)

bits(b, p, n) == Sum([i \in 1..n |-> bit(b, p + i - 1) * (2 ^ (i - 1))])

\* A Huffman code is the sequence of the code lengths of its symbols (the
\* length of symbol s at index s + 1, 0 for a symbol without code); the
\* codes are the canonical ones: shorter codes first, and among the codes of
\* one length in the order of the symbols.
\* the symbols with a code of length len, in their order
code_symbols(lens, len) ==
    LET of_len(s) == lens[s + 1] = len
    IN  SelectSeq([s \in 1..Len(lens) |-> s - 1], of_len)

\* how much of the code space the codes take, a code of 15 bits taking 1
code_space(lens) ==
    Sum([s \in 1..Len(lens) |-> IF lens[s] > 0 THEN 2 ^ (15 - lens[s]) ELSE 0])

\* a code is usable when its lengths fill the code space, or when it has at
\* most one symbol
code_ok(lens) ==
    \/ Cardinality({s \in 1..Len(lens) : lens[s] > 0}) <= 1
    \/ code_space(lens) = 32768

\* the table the decoder makes of a code, once for a block: the symbols of
\* each length, and the code space
huffman_table(lens) ==
    [lens |-> lens,
     symbols |-> [len \in 1..15 |-> code_symbols(lens, len)] \o <<>>,
     space |-> code_space(lens)]

\* the symbol whose code starts at bit p (codes are read most significant
\* bit first), and the bit after the bits read; symbol -1 as soon as the
\* bits read begin no code, -2 when the input ends before that.  `code` are
\* the bits read so far, `first` the first code of length len, `space` the
\* code space of the codes of len bits and more.
RECURSIVE huffman_decode(_, _, _, _, _, _, _)
huffman_decode(b, p, table, len, code, first, space) ==
    IF ~have_bits(b, p, 1) THEN [sym |-> -2, next |-> p]
    ELSE IF code + bit(b, p) - Len(table.symbols[len]) < first
         THEN [sym |-> table.symbols[len][code + bit(b, p) - first + 1],
               next |-> p + 1]
    ELSE IF (code + bit(b, p) - first - Len(table.symbols[len])) * (2 ^ (15 - len))
                >= space - Len(table.symbols[len]) * (2 ^ (15 - len))
         THEN [sym |-> -1, next |-> p + 1]
    ELSE huffman_decode(b, p + 1, table, len + 1, 2 * (code + bit(b, p)),
                        2 * (first + Len(table.symbols[len])),
                        space - Len(table.symbols[len]) * (2 ^ (15 - len)))

huffman_symbol(b, p, table) == huffman_decode(b, p, table, 1, 0, 0, table.space)

\* the size of the buffer of a std::io::BufReader: the decoder gets the file
\* in pieces that end at the multiples of it, and is read with a buffer of it
BUF_SIZE == 8192

\* the size of the window the decoder decodes into and copies from
DICT_SIZE == 32768

\* the decoder at bit p of the input b, `offset` bytes into the file, before
\* any data: the data decoded so far (out), whether the block it is in is
\* the final one, the tables of the codes of that block (lit, dist), and,
\* while the code lengths of a block are read, the table of the code they
\* are coded in (cl), those read so far (lens), how many there are (n) and
\* how many of them are of literals and lengths (hlit);
\* the index in b at which the piece of the file it has been given ends
\* (limit), and how many bytes of the data the reads that have returned
\* have delivered
InflateState(p, offset) ==
    [status |-> "block", p |-> p, out |-> <<>>, final |-> FALSE,
     lit |-> huffman_table(<<>>), dist |-> huffman_table(<<>>),
     cl |-> huffman_table(<<>>), lens |-> <<>>, n |-> 0, hlit |-> 0,
     limit |-> BUF_SIZE * (((offset + (p \div 8)) \div BUF_SIZE) + 1) - offset,
     delivered |-> 0]

\* the stream is no deflate stream, found with the bit before bit p
inflate_fault(s, p) == [s EXCEPT !.status = "fault", !.p = p]

inflate_cut(s) == [s EXCEPT !.status = "cut"]

\* the end of a block at bit p: of the stream, when the block is the final
\* one, and the stream ends with the byte
block_end(s, p) ==
    IF s.final THEN [s EXCEPT !.status = "done", !.p = 8 * ((p + 7) \div 8)]
    ELSE [s EXCEPT !.status = "block", !.p = p]

\* lengths 3..258 and distances 1..32768: the base and the number of extra
\* bits of the symbols 257..285 and 0..29
LengthBase ==
    <<3, 4, 5, 6, 7, 8, 9, 10, 11, 13, 15, 17, 19, 23, 27, 31, 35, 43, 51, 59,
      67, 83, 99, 115, 131, 163, 195, 227, 258>>

LengthExtra ==
    <<0, 0, 0, 0, 0, 0, 0, 0, 1, 1, 1, 1, 2, 2, 2, 2, 3, 3, 3, 3, 4, 4, 4, 4,
      5, 5, 5, 5, 0>>

DistBase ==
    <<1, 2, 3, 4, 5, 7, 9, 13, 17, 25, 33, 49, 65, 97, 129, 193, 257, 385, 513,
      769, 1025, 1537, 2049, 3073, 4097, 6145, 8193, 12289, 16385, 24577>>

DistExtra ==
    <<0, 0, 0, 0, 1, 1, 2, 2, 3, 3, 4, 4, 5, 5, 6, 6, 7, 7, 8, 8, 9, 9, 10, 10,
      11, 11, 12, 12, 13, 13>>

\* the byte k places before the end of the data: the window is all zeros
\* before the data
window_byte(out, k) == IF k > Len(out) THEN 0 ELSE out[Len(out) - k + 1]

\* the copy of len bytes from dist bytes back, which may overlap itself and
\* may start before the data
inflate_copy(s, p, len, dist) ==
    [s EXCEPT !.p = p,
              !.out = s.out \o [i \in 1..len |->
                          window_byte(s.out, dist - ((i - 1) % dist))]]

\* the distance symbol d and its extra bits
inflate_distance(b, s, len, d) ==
    IF d.sym = -2 THEN inflate_cut(s)
    ELSE IF d.sym = -1 \/ d.sym > 29 THEN inflate_fault(s, d.next)
    ELSE IF ~have_bits(b, d.next, DistExtra[d.sym + 1]) THEN inflate_cut(s)
    ELSE inflate_copy(s, d.next + DistExtra[d.sym + 1], len,
                      DistBase[d.sym + 1] + bits(b, d.next, DistExtra[d.sym + 1]))

\* the extra bits of length symbol 257 + k at bit p, and the distance
inflate_length(b, s, p, k) ==
    IF ~have_bits(b, p, LengthExtra[k + 1]) THEN inflate_cut(s)
    ELSE inflate_distance(b, s,
             LengthBase[k + 1] + bits(b, p, LengthExtra[k + 1]),
             huffman_symbol(b, p + LengthExtra[k + 1], s.dist))

\* the literal/length symbol c: a literal, the end of the block, or a length
inflate_symbol(b, s, c) ==
    IF c.sym = -2 THEN inflate_cut(s)
    ELSE IF c.sym = -1 \/ c.sym > 285 THEN inflate_fault(s, c.next)
    ELSE IF c.sym < 256 THEN [s EXCEPT !.out = Append(@, c.sym), !.p = c.next]
    ELSE IF c.sym = 256 THEN block_end(s, c.next)
    ELSE inflate_length(b, s, c.next, c.sym - 257)

\* one symbol of a block
codes_step(b, s) == inflate_symbol(b, s, huffman_symbol(b, s.p, s.lit))

\* `count` lengths of `value`, where count is base and nbits extra bits
repeat_length(b, s, p, nbits, base, value) ==
    IF ~have_bits(b, p, nbits) THEN inflate_cut(s)
    ELSE [s EXCEPT !.p = p + nbits,
                   !.lens = @ \o [i \in 1..(base + bits(b, p, nbits)) |-> value]]

\* the symbol c of the code of code lengths: a length, or a repetition of
\* the length before (16) or of zero (17, 18)
read_length(b, s, c) ==
    IF c.sym = -2 THEN inflate_cut(s)
    ELSE IF c.sym = -1 \/ (c.sym = 16 /\ s.lens = <<>>)
         THEN inflate_fault(s, c.next)
    ELSE IF c.sym < 16 THEN [s EXCEPT !.lens = Append(@, c.sym), !.p = c.next]
    ELSE repeat_length(b, s, c.next,
                       IF c.sym = 16 THEN 2 ELSE IF c.sym = 17 THEN 3 ELSE 7,
                       IF c.sym = 18 THEN 11 ELSE 3,
                       IF c.sym = 16 THEN s.lens[Len(s.lens)] ELSE 0)

\* the codes of a block from its code lengths, once they are all read
dynamic_codes(s) ==
    IF \/ ~code_ok(SubSeq(s.lens, 1, s.hlit))
       \/ ~code_ok(SubSeq(s.lens, s.hlit + 1, s.n))
    THEN inflate_fault(s, s.p)
    ELSE [s EXCEPT !.status = "codes",
                   !.lit = huffman_table(SubSeq(s.lens, 1, s.hlit)),
                   !.dist = huffman_table(SubSeq(s.lens, s.hlit + 1, s.n))]

\* one code length, or more by a repetition, of a block with its own codes
lengths_step(b, s) ==
    IF Len(s.lens) = s.n THEN dynamic_codes(s)
    ELSE IF Len(s.lens) > s.n THEN inflate_fault(s, s.p)
    ELSE read_length(b, s, huffman_symbol(b, s.p, s.cl))

\* the fixed code: 8 bits for the literals 0..143, 9 for 144..255, 7 for
\* 256..279, 8 for 280..287; 5 bits for each of 32 distance symbols, of
\* which 30 and 31 are no distance
FixedLitLens ==
    [s \in 1..288 |-> IF s <= 144 THEN 8 ELSE IF s <= 256 THEN 9
                      ELSE IF s <= 280 THEN 7 ELSE 8]

FixedDistLens == [s \in 1..32 |-> 5]

\* the order in which a block gives the lengths of its code of code lengths
ClOrder == <<16, 17, 18, 0, 8, 7, 9, 6, 10, 5, 11, 4, 12, 3, 13, 2, 14, 1, 15>>

\* the code of the code lengths: hclen lengths of three bits, from bit p on
cl_lens(b, p, hclen) ==
    [s \in 1..19 |->
        LET k == CHOOSE k \in 1..19 : ClOrder[k] = s - 1 IN
        IF k <= hclen THEN bits(b, p + 3 * (k - 1), 3) ELSE 0]

dynamic_lengths(s) == IF ~code_ok(s.cl.lens) THEN inflate_fault(s, s.p) ELSE s

\* the header of a block with its own codes: how many code lengths it
\* gives, and the code they are coded in
dynamic_header(b, s, hlit, hdist, hclen) ==
    IF hlit > 286 \/ hdist > 30 THEN inflate_fault(s, s.p + 14)
    ELSE IF ~have_bits(b, s.p + 14, 3 * hclen) THEN inflate_cut(s)
    ELSE dynamic_lengths([s EXCEPT !.status = "lengths",
                                   !.p = s.p + 14 + 3 * hclen,
                                   !.cl = huffman_table(cl_lens(b, s.p + 14, hclen)),
                                   !.lens = <<>>,
                                   !.hlit = hlit,
                                   !.n = hlit + hdist])

dynamic_block(b, s) ==
    IF ~have_bits(b, s.p, 14) THEN inflate_cut(s)
    ELSE dynamic_header(b, s, bits(b, s.p, 5) + 257, bits(b, s.p + 5, 5) + 1,
                        bits(b, s.p + 10, 4) + 4)

\* the len bytes of a stored block, from index pos on
stored_data(b, s, pos, len) ==
    IF Len(b) < pos + len - 1
    THEN inflate_cut([s EXCEPT !.out = @ \o SubSeq(b, pos, Len(b))])
    ELSE block_end([s EXCEPT !.out = @ \o SubSeq(b, pos, pos + len - 1)],
                   8 * (pos + len - 1))

\* a stored block whose length field is at index pos: the length, its
\* complement, the bytes
stored_block(b, s, pos) ==
    IF Len(b) < pos + 3 THEN inflate_cut(s)
    ELSE IF b[pos] + 256 * b[pos + 1] + b[pos + 2] + 256 * b[pos + 3] # 65535
         THEN inflate_fault(s, 8 * (pos + 3))
    ELSE stored_data(b, s, pos + 4, b[pos] + 256 * b[pos + 1])

\* the block of the given type, s.p the bit after its three header bits
block_of_type(b, s, type) ==
    IF type = 0 THEN stored_block(b, s, ((s.p + 7) \div 8) + 1)
    ELSE IF type = 1
         THEN [s EXCEPT !.status = "codes", !.lit = huffman_table(FixedLitLens),
                        !.dist = huffman_table(FixedDistLens)]
    ELSE IF type = 2 THEN dynamic_block(b, s)
    ELSE inflate_fault(s, s.p)

\* the header of a block: whether it is the final one, and its type
block_step(b, s) ==
    IF ~have_bits(b, s.p, 3) THEN inflate_cut(s)
    ELSE block_of_type(b, [s EXCEPT !.final = (bit(b, s.p) = 1), !.p = s.p + 3],
                       bits(b, s.p + 1, 2))

\* what the decoder decodes next
decode_step(b, s) ==
    IF s.status = "block" THEN block_step(b, s)
    ELSE IF s.status = "lengths" THEN lengths_step(b, s)
    ELSE IF s.status = "codes" THEN codes_step(b, s)
    ELSE s

(***************************************************************************)
(* The reads.  The file is read through a BufReader, which gives the       *)
(* decoder the file in pieces of BUF_SIZE bytes; the decoder is read       *)
(* through another, with a buffer of BUF_SIZE bytes.  A call of the        *)
(* decoder decodes into its window what the piece it is given allows, up   *)
(* to the end of the window; what it has decoded is handed over BUF_SIZE   *)
(* bytes a read before it is called again.  So the data decoded from the   *)
(* pieces before the current one have been delivered, and so have the data *)
(* up to the end of the window when they filled the buffer of the read.    *)
(***************************************************************************)
\* the end of the piece with the byte at index `last`, for pieces that end
\* at `limit` and every BUF_SIZE bytes from there
chunk_end(limit, last) ==
    IF last <= limit THEN limit
    ELSE limit + BUF_SIZE * ((last - limit + BUF_SIZE - 1) \div BUF_SIZE)

\* of the n bytes of a stored block that ends with the byte at index `last`,
\* those in the pieces before the one that ends at `limit`
stored_before(n, last, limit) ==
    IF limit - BUF_SIZE <= last - n THEN 0
    ELSE IF limit - BUF_SIZE >= last THEN n
    ELSE (limit - BUF_SIZE) - (last - n)

\* the data delivered before the call that takes the decoder from s to t,
\* in the piece that ends at `limit`
delivered_input(s, t, limit) ==
    IF limit = s.limit THEN s.delivered
    ELSE IF s.status = "block" /\ t.status \in {"block", "done"}
         THEN Len(s.out) + stored_before(Len(t.out) - Len(s.out), t.p \div 8, limit)
    ELSE Len(s.out)

\* the data delivered once the data have passed the end `full` of the
\* window, d bytes delivered before
delivered_window(full, d) == IF full - d >= BUF_SIZE THEN full ELSE d

delivered_output(t, d) ==
    IF Len(t.out) = 0 THEN d
    ELSE delivered_window(DICT_SIZE * ((Len(t.out) - 1) \div DICT_SIZE), d)

\* the decoder at t, in the piece that ends at `limit` and d bytes
\* delivered: the read that finds a fault delivers nothing
reads_done(t, limit, d) ==
    IF t.status = "fault"
    THEN [t EXCEPT !.out = SubSeq(@, 1, d), !.limit = limit, !.delivered = d]
    ELSE [t EXCEPT !.limit = limit, !.delivered = d]

reads_in(s, t, limit) ==
    reads_done(t, limit, delivered_output(t, delivered_input(s, t, limit)))

\* the reads by which the decoder gets from s to t
read_step(s, t) ==
    IF t.status = "cut" THEN t
    ELSE reads_in(s, t, chunk_end(s.limit, (t.p + 7) \div 8))

inflate_step(b, s) == read_step(s, decode_step(b, s))

\* n steps from s on, or as many as it takes to the end of the stream
RECURSIVE inflate_steps(_, _, _)
inflate_steps(b, s, n) ==
    IF s.status \in {"done", "cut", "fault"} \/ n = 0 THEN s
    ELSE IF n = 1 THEN inflate_step(b, s)
    ELSE inflate_steps(b, inflate_steps(b, s, n \div 2), n - (n \div 2))

\* what the decoder ended in: how, the data it delivers, and the index of
\* the byte after the stream (0 when the stream has no end)
inflate_result(s) ==
    [status |-> s.status, data |-> s.out,
     next |-> IF s.status = "done" THEN (s.p \div 8) + 1 ELSE 0]

\* the deflate stream from bit p of b on, b starting `offset` bytes into the
\* file; every step but the last of a block's code lengths reads a bit or
\* more
inflate(b, p, offset) ==
    inflate_result(inflate_steps(b, InflateState(p, offset), 8 * Len(b) + 1))

RECURSIVE multi_gz_from(_, _)

\* a stream followed by what the rest of the input decodes to
stream_then(data, more) == [ok |-> more.ok, data |-> data \o more.data]

\* the member whose deflate stream decoded to `body`: its trailer, and the
\* members after it
gz_member_end(b, offset, body) ==
    IF body.status # "done" \/ Len(b) < body.next + 7 THEN StreamFails(body.data)
    ELSE IF SubSeq(b, body.next, body.next + 7)
               # crc32(body.data) \o le32(Len(body.data))
         THEN StreamFails(body.data)
    ELSE IF Len(b) = body.next + 7 THEN StreamOk(body.data)
    ELSE stream_then(body.data, multi_gz_from(SubSeq(b, body.next + 8, Len(b)),
                                              offset + body.next + 7))

\* the member at the front of b, whose deflate stream starts at `start`
gz_member_at(b, offset, start) ==
    IF start = 0 THEN StreamErr
    ELSE gz_member_end(b, offset, inflate(b, 8 * (start - 1), offset))

\* the members from b on, b starting `offset` bytes into the file
multi_gz_from(b, offset) == gz_member_at(b, offset, gz_header_end(b))

multi_gz_decode(b) == multi_gz_from(b, 0)

(***************************************************************************)
(* bio::io::fasta::Reader::records(): the stream is read line by line with *)
(* BufRead::read_line, which fails when the stream does and when the line  *)
(* is not UTF-8.  A record starts at a line beginning with '>' (62); its   *)
(* id is the rest of that line up to its first white space, its sequence   *)
(* the following lines up to the next '>' line or the end, each with the   *)
(* trailing white space trimmed (str::trim_end, char::is_whitespace: the   *)
(* Unicode White_Space characters).  A record is read with the line that   *)
(* follows it.  A first line that does not begin with '>' is an error; a   *)
(* record with neither id, description nor sequence ends the iteration.    *)
(***************************************************************************)
\* the UTF-8 encodings of the White_Space characters
WhiteSpace ==
    {<<c>> : c \in {9, 10, 11, 12, 13, 32}}
    \cup {<<194, 133>>, <<194, 160>>, <<225, 154, 128>>}
    \cup {<<226, 128, c>> : c \in (128..138) \cup {168, 169, 175}}
    \cup {<<226, 129, 159>>, <<227, 128, 128>>}

\* a byte that continues a character
utf8_cont(s, i) == i <= Len(s) /\ s[i] >= 128 /\ s[i] <= 191

\* how many bytes continue the character that starts with byte c, -1 when
\* no character starts with it
utf8_more(c) ==
    IF c < 128 THEN 0
    ELSE IF c >= 194 /\ c <= 223 THEN 1
    ELSE IF c >= 224 /\ c <= 239 THEN 2
    ELSE IF c >= 240 /\ c <= 244 THEN 3
    ELSE -1

\* the character that starts at index i: its first byte, as many bytes that
\* continue it as that asks for and no more, and no overlong form,
\* surrogate or code point above 10FFFF
utf8_char(s, i) ==
    /\ utf8_more(s[i]) >= 0
    /\ \A k \in 1..utf8_more(s[i]) : utf8_cont(s, i + k)
    /\ ~utf8_cont(s, i + utf8_more(s[i]) + 1)
    /\ (s[i] = 224 => s[i + 1] >= 160)
    /\ (s[i] = 237 => s[i + 1] <= 159)
    /\ (s[i] = 240 => s[i + 1] >= 144)
    /\ (s[i] = 244 => s[i + 1] <= 143)

\* std::str::from_utf8: a character starts at the first byte and at every
\* byte that continues none
valid_utf8(s) ==
    /\ ~utf8_cont(s, 1)
    /\ \A i \in 1..Len(s) : utf8_cont(s, i) \/ utf8_char(s, i)

\* the lines of the data, each with its '\n' when it has one
RECURSIVE read_lines(_)
read_lines(b) ==
    IF b = <<>> THEN <<>>
    ELSE LET nl == {i \in 1..Len(b) : b[i] = 10}
             n  == IF nl = {} THEN Len(b)
                   ELSE CHOOSE i \in nl : \A j \in nl : i <= j
         IN  <<SubSeq(b, 1, n)>> \o read_lines(SubSeq(b, n + 1, Len(b)))

\* what read_line returns, call after call: the lines it returns, and
\* whether the call after them fails (instead of reporting the end).  On a
\* failing stream a last line without '\n' is not returned: the read that
\* looks for its end fails.
returned_lines(all, ok) ==
    IF ~ok /\ all # <<>> /\ all[Len(all)][Len(all[Len(all)])] # 10
    THEN SubSeq(all, 1, Len(all) - 1) ELSE all

until_invalid(whole, ok) ==
    LET bad == {i \in 1..Len(whole) : ~valid_utf8(whole[i])} IN
    IF bad = {} THEN [lines |-> whole, fails |-> ~ok]
    ELSE [lines |-> SubSeq(whole, 1, (CHOOSE i \in bad : \A j \in bad : i <= j) - 1),
          fails |-> TRUE]

read_line_calls(stream) ==
    until_invalid(returned_lines(read_lines(stream.data), stream.ok), stream.ok)

RECURSIVE trim_end(_)
trim_end(line) ==
    IF \E w \in 1..3 :
          w <= Len(line) /\ SubSeq(line, Len(line) - w + 1, Len(line)) \in WhiteSpace
    THEN LET w == CHOOSE w \in 1..3 :
                    w <= Len(line)
                    /\ SubSeq(line, Len(line) - w + 1, Len(line)) \in WhiteSpace
         IN  trim_end(SubSeq(line, 1, Len(line) - w))
    ELSE line

\* the header line without '>' and trailing white space, split at its first
\* white space: the id, and whether a description follows
split_whitespace(h) ==
    LET ws == {i \in 1..Len(h) :
                 \E w \in 1..3 : i + w - 1 <= Len(h)
                                 /\ SubSeq(h, i, i + w - 1) \in WhiteSpace}
        n  == IF ws = {} THEN Len(h) + 1
              ELSE CHOOSE i \in ws : \A j \in ws : i <= j
    IN  [id |-> SubSeq(h, 1, n - 1), has_desc |-> ws # {}]

header_fields(line) == split_whitespace(trim_end(Tail(line)))

\* how many lines at the front of `lines` do not begin with '>'
RECURSIVE seq_line_count(_)
seq_line_count(lines) ==
    IF lines = <<>> \/ Head(lines)[1] = 62 THEN 0
    ELSE 1 + seq_line_count(Tail(lines))

ParseErr == [ok |-> FALSE, records |-> <<>>]

\* the records read from `lines`, where `fails` says that the read_line
\* after the last of them fails
RECURSIVE parse_records(_, _)

\* a record followed by what the rest of the lines parse to
record_then(id, seq, more) ==
    IF more.ok
    THEN [ok |-> TRUE, records |-> <<[id |-> id, seq |-> seq]>> \o more.records]
    ELSE ParseErr

\* the record of header h and sequence seq, read with the line after it:
\* `rest` are the lines from that one on
record_read(h, seq, rest, fails) ==
    IF rest = <<>> /\ fails THEN ParseErr
    ELSE IF h.id = <<>> /\ ~h.has_desc /\ seq = <<>>
         THEN [ok |-> TRUE, records |-> <<>>]
    ELSE record_then(h.id, seq, parse_records(rest, fails))

\* the record at the front of `lines`, which has n sequence lines
record_at(lines, n, fails) ==
    record_read(header_fields(Head(lines)),
                Flatten([i \in 1..n |-> trim_end(lines[i + 1])]),
                SubSeq(lines, n + 2, Len(lines)),
                fails)

parse_records(lines, fails) ==
    IF lines = <<>>
    THEN IF fails THEN ParseErr ELSE [ok |-> TRUE, records |-> <<>>]
    ELSE IF Head(lines)[1] # 62 THEN ParseErr
    ELSE record_at(lines, seq_line_count(Tail(lines)), fails)

parse_calls(calls) == parse_records(calls.lines, calls.fails)

\* the records of a stream, or its error
fasta_records(stream) == parse_calls(read_line_calls(stream))

(***************************************************************************)
(* ReferenceGenome: the struct and its methods, as operators on a record   *)
(* self = [filename, contig_keys, contig_map].                             *)
(***************************************************************************)
empty_reference ==
    [filename |-> <<>>, contig_keys |-> <<>>, contig_map |-> EmptyMap]

\* a variant that looks for "gz" at the end of the path instead of asking
\* for the extension of its file name
open_reader_suffix(file) ==
    IF file.kind = "missing"
    THEN [opened |-> FALSE, decoder |-> "none", stream |-> StreamErr]
    ELSE IF Len(file.path) >= 2
            /\ SubSeq(file.path, Len(file.path) - 1, Len(file.path)) = <<"g", "z">>
         THEN [opened |-> TRUE, decoder |-> "gzip",
               stream |-> IF file.kind = "dir" THEN StreamErr
                          ELSE multi_gz_decode(file.bytes)]
         ELSE [opened |-> TRUE, decoder |-> "plain",
               stream |-> IF file.kind = "dir" THEN StreamErr
                          ELSE StreamOk(file.bytes)]

\* from_fasta, lines 42-52: File::open, which fails on a missing file and
\* opens a directory as it opens a file; then the gzip decoder when the
\* extension is "gz" and the raw buffered file otherwise.  Every read of an
\* open directory fails.
open_reader(file) ==
    IF file.kind = "missing"
    THEN [opened |-> FALSE, decoder |-> "none", stream |-> StreamErr]
    ELSE IF extension(file.path) = <<"g", "z">>
         THEN [opened |-> TRUE, decoder |-> "gzip",
               stream |-> IF file.kind = "dir" THEN StreamErr
                          ELSE multi_gz_decode(file.bytes)]
         ELSE [opened |-> TRUE, decoder |-> "plain",
               stream |-> IF file.kind = "dir" THEN StreamErr
                          ELSE StreamOk(file.bytes)]

\* from_fasta, one turn of the loop of lines 54-61
load_record(store, record) ==
    [store EXCEPT !.contig_keys = Append(@, record.id),
                  !.contig_map  = insert(@, record.id,
                                         to_ascii_uppercase(record.seq))]

RECURSIVE load_records(_, _)
load_records(store, records) ==
    IF records = <<>> THEN store
    ELSE load_records(load_record(store, Head(records)), Tail(records))

\* from_fasta, lines 39-40 and 54-68: the loop over what the reader parsed,
\* and the struct made of the file name and what the loop collected
from_fasta_loop(path, reader, parsed) ==
    IF reader.opened /\ parsed.ok
    THEN [status |-> "ok", decoder |-> reader.decoder,
          self |-> load_records([filename    |-> path,
                                 contig_keys |-> <<>>,
                                 contig_map  |-> EmptyMap],
                                parsed.records)]
    ELSE [status |-> "err", decoder |-> reader.decoder, self |-> empty_reference]

from_fasta_reader(path, reader) ==
    from_fasta_loop(path, reader, fasta_records(reader.stream))

from_fasta(file) == from_fasta_reader(file.path, open_reader(file))

\* the message of the SimpleError of line 77, in three pieces: the text
\* before the braces, what stands for {contig_key}, the text after.  bail!
\* is a macro of the simple_error crate; given a lone string literal it
\* either formats it, and the key is in the message, or converts it as it
\* stands, and the braces and the name between them are: `captures` says
\* which of the two the macro of the build does.
duplicate_key_error(contig_key, captures) ==
    <<"Contig key \"",
      IF captures THEN contig_key
      ELSE <<123, 99, 111, 110, 116, 105, 103, 95, 107, 101, 121, 125>>,
      "\" is already in the reference genome">>

\* a variant that saves the key before it looks for a duplicate
add_contig_push_first(self, contig_key, contig_sequence, captures) ==
    LET pushed == [self EXCEPT !.contig_keys = Append(@, contig_key)] IN
    IF contains_key(self.contig_map, contig_key)
    THEN [status |-> "err", value |-> duplicate_key_error(contig_key, captures),
          self |-> pushed]
    ELSE [status |-> "ok", value |-> <<>>,
          self |-> [pushed EXCEPT !.contig_map =
                        insert(@, contig_key, to_ascii_uppercase(contig_sequence))]]

\* a variant without the duplicate check: the key is saved again and the
\* stored sequence replaced
add_contig_overwrite(self, contig_key, contig_sequence, captures) ==
    [status |-> "ok", value |-> <<>>,
     self |-> [filename    |-> self.filename,
               contig_keys |-> Append(self.contig_keys, contig_key),
               contig_map  |-> insert(self.contig_map, contig_key,
                                      to_ascii_uppercase(contig_sequence))]]

\* a variant that puts the new key at the front of the key list
add_contig_prepend(self, contig_key, contig_sequence, captures) ==
    IF contains_key(self.contig_map, contig_key)
    THEN [status |-> "err", value |-> duplicate_key_error(contig_key, captures),
          self |-> self]
    ELSE [status |-> "ok", value |-> <<>>,
          self |-> [filename    |-> self.filename,
                    contig_keys |-> <<contig_key>> \o self.contig_keys,
                    contig_map  |-> insert(self.contig_map, contig_key,
                                           to_ascii_uppercase(contig_sequence))]]

add_contig(self, contig_key, contig_sequence, captures) ==
    IF contains_key(self.contig_map, contig_key)
    THEN [status |-> "err", value |-> duplicate_key_error(contig_key, captures),
          self |-> self]
    ELSE LET byte_form == to_ascii_uppercase(contig_sequence) IN
         [status |-> "ok", value |-> <<>>,
          self |-> [filename    |-> self.filename,
                    contig_keys |-> Append(self.contig_keys, contig_key),
                    contig_map  |-> insert(self.contig_map, contig_key, byte_form)]]

Panic == [status |-> "panic", value |-> <<>>]

\* a variant that does not truncate start: the slice index panics past the end
get_slice_start_kept(self, chromosome, start, end) ==
    IF ~contains_key(self.contig_map, chromosome) THEN Panic
    ELSE LET full_contig == self.contig_map[chromosome]
             truncated_end == Min(end, Len(full_contig))
         IN  IF ~(start <= end) \/ start > truncated_end THEN Panic
             ELSE [status |-> "ok",
                   value |-> SubSeq(full_contig, start + 1, truncated_end)]

\* a variant that truncates end to the last index instead of the length
get_slice_end_short(self, chromosome, start, end) ==
    IF ~contains_key(self.contig_map, chromosome) THEN Panic
    ELSE LET full_contig == self.contig_map[chromosome]
             truncated_start == Min(start, Len(full_contig))
             truncated_end ==
                 IF end < Len(full_contig) THEN end ELSE Len(full_contig) - 1
         IN  IF ~(start <= end) \/ truncated_start > truncated_end THEN Panic
             ELSE [status |-> "ok",
                   value |-> SubSeq(full_contig, truncated_start + 1,
                                    truncated_end)]

\* a variant that truncates before it compares start and end
get_slice_truncate_first(self, chromosome, start, end) ==
    IF ~contains_key(self.contig_map, chromosome) THEN Panic
    ELSE LET full_contig == self.contig_map[chromosome]
             truncated_start == Min(start, Len(full_contig))
             truncated_end == Min(end, Len(full_contig))
         IN  IF ~(truncated_start <= truncated_end) THEN Panic
             ELSE [status |-> "ok",
                   value |-> SubSeq(full_contig, truncated_start + 1,
                                    truncated_end)]

get_slice(self, chromosome, start, end) ==
    IF ~contains_key(self.contig_map, chromosome) THEN Panic
    ELSE LET full_contig == self.contig_map[chromosome] IN
         IF ~(start <= end) THEN Panic
         ELSE LET truncated_start ==
                      IF start <= Len(full_contig) THEN start ELSE Len(full_contig)
                  truncated_end ==
                      IF end <= Len(full_contig) THEN end ELSE Len(full_contig)
              IN  \* &full_contig[a..b] panics when a > b
                  IF truncated_start > truncated_end THEN Panic
                  ELSE [status |-> "ok",
                        value |-> SubSeq(full_contig, truncated_start + 1,
                                         truncated_end)]

get_full_chromosome(self, chromosome) ==
    IF ~contains_key(self.contig_map, chromosome) THEN Panic
    ELSE [status |-> "ok", value |-> self.contig_map[chromosome]]

(***************************************************************************)
(* Inputs.                                                                 *)
(***************************************************************************)
\* contig names: "x", "y"
Names == {<<120>>, <<121>>}

\* sequences handed to add_contig: the short ones over 'a' and 'N', and "Acgt"
AddSeqs == SeqsUpTo({97, 78}, MaxSeqLen) \cup {<<65, 99, 103, 116>>}

\* offsets handed to get_slice
Coords == 0..(MaxSeqLen + 2)

\* sequences of FASTA records: "zC", "g"
FastaSeqs == {<<122, 67>>, <<103>>}

FastaRecords == [id : Names, seq : FastaSeqs]

\* a sequence wrapped into lines of one byte, each ended by '\n'
RECURSIVE wrap(_)
wrap(seq) ==
    IF seq = <<>> THEN <<>>
    ELSE <<Head(seq), 10>> \o wrap(Tail(seq))

RECURSIVE fasta_text(_)
fasta_text(records) ==
    IF records = <<>> THEN <<>>
    ELSE <<62>> \o Head(records).id \o <<10>> \o wrap(Head(records).seq)
         \o fasta_text(Tail(records))

\* well-formed FASTA texts; one whose first line is no header ("a\n"); one
\* whose first record is empty (">\n>x\nA\n"); one with a sequence line that
\* is not ASCII and ends in a no-break space (">x\n", e9 "a" a0 "\n")
FastaTexts ==
    {fasta_text(rs) : rs \in SeqsUpTo(FastaRecords, MaxRecords)}
    \cup {<<97, 10>>,
          <<62, 10, 62, 120, 10, 65, 10>>,
          <<62, 120, 10, 195, 169, 97, 194, 160, 10>>}

\* a text as one gzip member of a stored block, as two of them, and as one
\* member of a block in the fixed Huffman code
gz_encodings(text) ==
    LET h == Len(text) \div 2 IN
    {gz_member(text),
     gz_member(SubSeq(text, 1, h)) \o gz_member(SubSeq(text, h + 1, Len(text))),
     gz_member_fixed(text)}

\* a text as one gzip member with a wrong checksum
gz_corrupt(text) ==
    LET member == gz_member(text)
        at     == Len(member) - 7
    IN  [member EXCEPT ![at] = (@ + 1) % 256]

\* ">x\nAACA\nCAAA\nAACA\nCAAA\n" as a block with its own Huffman codes
GzDynamic ==
    <<31, 139, 8, 0, 0, 0, 0, 0, 0, 3, 5, 193, 193, 9, 0, 48, 16, 4, 161,
      255, 20, 21, 144, 109, 234, 202, 143, 190, 139, 105, 136, 105, 232, 3,
      158, 102, 8, 141, 23, 0, 0, 0>>

\* ">x\nACGT\nACGT\nACGT\n" as a block in the fixed code with a copy
GzCopy ==
    <<31, 139, 8, 0, 0, 0, 0, 0, 0, 3, 179, 171, 224, 114, 116, 118, 15, 65,
      34, 0, 221, 196, 235, 76, 18, 0, 0, 0>>

\* ">y\ng\n" as gzip writes it for a file r.fa: a header with the file name
GzNamed ==
    <<31, 139, 8, 8, 0, 0, 0, 0, 0, 3, 114, 46, 102, 97, 0, 179, 171, 228,
      74, 231, 2, 0, 68, 143, 250, 9, 5, 0, 0, 0>>

\* a member of two blocks: the stored block ">x\nA\n>\n>y\n", and a stored
\* block whose length and complement do not match
GzFaulty ==
    <<31, 139, 8, 0, 0, 0, 0, 0, 0, 255, 0, 10, 0, 245, 255, 62, 120, 10, 65,
      10, 62, 10, 62, 121, 10, 1, 3, 0, 0, 0, 65, 10, 10>>

\* the file of the test: ">chr1\nACGTACGT\n>chr2\nACCATGTA\n", and what
\* gzip makes of the file test_reference.fa that holds it
FaTest ==
    <<62, 99, 104, 114, 49, 10, 65, 67, 71, 84, 65, 67, 71, 84, 10, 62, 99,
      104, 114, 50, 10, 65, 67, 67, 65, 84, 71, 84, 65, 10>>

GzTest ==
    <<31, 139, 8, 8, 128, 0, 146, 101, 0, 3, 116, 101, 115, 116, 95, 114, 101,
      102, 101, 114, 101, 110, 99, 101, 46, 102, 97, 0, 179, 75, 206, 40, 50,
      228, 114, 116, 118, 15, 1, 97, 46, 59, 32, 215, 8, 200, 117, 118, 12, 1,
      138, 112, 1, 0, 99, 251, 19, 50, 30, 0, 0, 0>>

\* ">x\nz\nC\n>y\ng\n", and what gzip makes of ">x\nz\nC\n" followed by
\* what it makes of ">y\ng\n": a file of two members
FaTwo == <<62, 120, 10, 122, 10, 67, 10, 62, 121, 10, 103, 10>>

GzTwo ==
    <<31, 139, 8, 0, 0, 0, 0, 0, 0, 3, 179, 171, 224, 170, 226, 114, 230, 2,
      0, 138, 166, 101, 250, 7, 0, 0, 0, 31, 139, 8, 0, 0, 0, 0, 0, 2, 3, 179,
      171, 228, 74, 231, 2, 0, 68, 143, 250, 9, 5, 0, 0, 0>>

\* the texts of GzDynamic, GzCopy and GzNamed
FaDynamic ==
    <<62, 120, 10, 65, 65, 67, 65, 10, 67, 65, 65, 65, 10, 65, 65, 67, 65, 10,
      67, 65, 65, 65, 10>>

FaCopy ==
    <<62, 120, 10, 65, 67, 71, 84, 10, 65, 67, 71, 84, 10, 65, 67, 71, 84, 10>>

FaNamed == <<62, 121, 10, 103, 10>>

\* files that gzip and zlib wrote, with the texts they were written from
GzipFiles ==
    {[text |-> FaTest, gz |-> GzTest],
     [text |-> FaTwo, gz |-> GzTwo],
     [text |-> FaDynamic, gz |-> GzDynamic],
     [text |-> FaCopy, gz |-> GzCopy],
     [text |-> FaNamed, gz |-> GzNamed]}

FileContents ==
    FastaTexts
    \cup UNION {gz_encodings(t) : t \in FastaTexts}
    \cup {gz_corrupt(t) : t \in FastaTexts}
    \cup {g.text : g \in GzipFiles \ {[text |-> FaTest, gz |-> GzTest]}}
    \cup {g.gz : g \in GzipFiles \ {[text |-> FaTest, gz |-> GzTest]}}
    \cup {GzFaulty}

\* paths of regular files: "r.fa", "r.fa.gz", "r.GZ", "d.gz/.gz"
Paths ==
    {<<"r", ".", "f", "a">>,
     <<"r", ".", "f", "a", ".", "g", "z">>,
     <<"r", ".", "G", "Z">>,
     <<"d", ".", "g", "z", "/", ".", "g", "z">>}

\* paths of directories: "d.gz/", "d"
DirPaths == {<<"d", ".", "g", "z", "/">>, <<"d">>}

\* the paths of the test: "./test_data/test_reference.fa" and the same
\* with ".gz"
TestPath ==
    <<".", "/", "t", "e", "s", "t", "_", "d", "a", "t", "a", "/", "t", "e",
      "s", "t", "_", "r", "e", "f", "e", "r", "e", "n", "c", "e", ".", "f", "a">>

TestPathGz == TestPath \o <<".", "g", "z">>

Files ==
    [path : Paths, kind : {"file"}, bytes : FileContents]
    \cup [path : {TestPath, TestPathGz}, kind : {"file"}, bytes : {FaTest, GzTest}]
    \cup [path : Paths, kind : {"missing"}, bytes : {<<>>}]
    \cup [path : DirPaths, kind : {"dir"}, bytes : {<<>>}]

(***************************************************************************)
(* The state machine: one store from its construction on.  `result` is the *)
(* last call with its arguments and what it returned.                      *)
(***************************************************************************)
NoFile == [path |-> <<>>, kind |-> "missing", bytes |-> <<>>]

Call(op) ==
    [op |-> op, status |-> "ok", value |-> <<>>, key |-> <<>>, seq |-> <<>>,
     start |-> 0, end |-> 0, file |-> NoFile, decoder |-> "none"]

Self ==
    [filename |-> filename, contig_keys |-> contig_keys, contig_map |-> contig_map]

Becomes(self) ==
    /\ filename' = self.filename
    /\ contig_keys' = self.contig_keys
    /\ contig_map' = self.contig_map

Init ==
    /\ pc = "start"
    /\ filename = <<>>
    /\ contig_keys = <<>>
    /\ contig_map = EmptyMap
    /\ result = Call("none")

EmptyReference ==
    /\ pc = "start"
    /\ pc' = "live"
    /\ Becomes(empty_reference)
    /\ result' = Call("empty_reference")

FromFasta ==
    /\ pc = "start"
    /\ \E file \in Files : \E r \in {from_fasta(file)} :
        /\ pc' = IF r.status = "ok" THEN "live" ELSE "failed"
        /\ Becomes(r.self)
        /\ result' = [Call("from_fasta") EXCEPT !.status = r.status,
                          !.file = file, !.decoder = r.decoder]

AddContig ==
    /\ pc = "live"
    /\ \E key \in Names, seq \in AddSeqs, captures \in BOOLEAN :
        LET r == add_contig(Self, key, seq, captures) IN
        /\ pc' = pc
        /\ Becomes(r.self)
        /\ result' = [Call("add_contig") EXCEPT !.status = r.status,
                          !.value = r.value, !.key = key, !.seq = seq]

GetSlice ==
    /\ pc = "live"
    /\ \E name \in Names, start \in Coords, end \in Coords :
        LET r == get_slice(Self, name, start, end) IN
        /\ pc' = IF r.status = "panic" THEN "panicked" ELSE pc
        /\ UNCHANGED <<filename, contig_keys, contig_map>>
        /\ result' = [Call("get_slice") EXCEPT !.status = r.status,
                          !.value = r.value, !.key = name,
                          !.start = start, !.end = end]

GetFullChromosome ==
    /\ pc = "live"
    /\ \E name \in Names :
        LET r == get_full_chromosome(Self, name) IN
        /\ pc' = IF r.status = "panic" THEN "panicked" ELSE pc
        /\ UNCHANGED <<filename, contig_keys, contig_map>>
        /\ result' = [Call("get_full_chromosome") EXCEPT !.status = r.status,
                          !.value = r.value, !.key = name]

ContigKeys ==
    /\ pc = "live"
    /\ UNCHANGED <<pc, filename, contig_keys, contig_map>>
    /\ result' = [Call("contig_keys") EXCEPT !.value = contig_keys]

Filename ==
    /\ pc = "live"
    /\ UNCHANGED <<pc, filename, contig_keys, contig_map>>
    /\ result' = [Call("filename") EXCEPT !.value = filename]

Next ==
    \/ EmptyReference
    \/ FromFasta
    \/ AddContig
    \/ GetSlice
    \/ GetFullChromosome
    \/ ContigKeys
    \/ Filename

Spec == Init /\ [][Next]_vars

(***************************************************************************)
(* Properties.                                                             *)
(***************************************************************************)
Stored == <<filename, contig_keys, contig_map>>

IsLower(b) == b >= 97 /\ b <= 122

\* `stored` is `given` with each of a-z replaced by A-Z and all else kept
IsUpperOf(stored, given) ==
    /\ Len(stored) = Len(given)
    /\ \A i \in 1..Len(given) :
        IF IsLower(given[i]) THEN stored[i] = given[i] - 32
        ELSE stored[i] = given[i]

\* the records the reader of the last from_fasta call yields
ResultRecords == fasta_records(open_reader(result.file).stream)

Ids(records) == [i \in 1..Len(records) |-> records[i].id]

HasDuplicate(s) == \E i, j \in 1..Len(s) : i < j /\ s[i] = s[j]

\* C1: add_contig with a name the store already holds returns the
\* duplicate-key error naming that name, and the filename, the key list and
\* every stored sequence are as before the call.
C1_DuplicateRejected ==
    [][(result'.op = "add_contig" /\ contains_key(contig_map, result'.key))
        => /\ result'.status = "err"
           /\ result'.value = duplicate_key_error(result'.key, TRUE)
           /\ result'.value[2] = result'.key
           /\ UNCHANGED Stored
           /\ pc' = "live"]_vars

\* C1, without what the message holds: the call is rejected and the store
\* is as before
C1_StoreUnchanged ==
    [][(result'.op = "add_contig" /\ contains_key(contig_map, result'.key))
        => /\ result'.status = "err"
           /\ UNCHANGED Stored
           /\ pc' = "live"]_vars

\* a rejected add_contig whose sequence differs from the stored one
C1_Witness ==
    /\ result.op = "add_contig"
    /\ result.status = "err"
    /\ contains_key(contig_map, result.key)
    /\ contig_map[result.key] # to_ascii_uppercase(result.seq)

\* C2: from_fasta on a stream with two records of the same identifier fails
\* (it rejects the second record as add_contig would).
C2_BulkLoadRejectsDuplicate ==
    (result.op = "from_fasta" /\ ResultRecords.ok
     /\ HasDuplicate(Ids(ResultRecords.records)))
        => result.status = "err"

\* C3: in every store the key list has no repeated name and holds exactly
\* the keys of the sequence map.
C3_KeysMatchMap ==
    pc = "live" =>
        /\ Range(contig_keys) = DOMAIN contig_map
        /\ ~HasDuplicate(contig_keys)

\* C4: the key list only grows at its end: each step keeps the old list as a
\* prefix of the new one, a successful add_contig appends exactly its name,
\* and from_fasta leaves the record identifiers in stream order.
C4_KeysAppendOnly ==
    [][/\ IsPrefix(contig_keys, contig_keys')
       /\ (result'.op = "add_contig" /\ result'.status = "ok")
            => /\ contig_keys' = Append(contig_keys, result'.key)
               /\ contig_keys'[Len(contig_keys')] = result'.key
       /\ (result'.op = "from_fasta" /\ result'.status = "ok")
            => contig_keys' =
                 Ids(fasta_records(open_reader(result'.file).stream).records)
       /\ result'.op \notin {"add_contig", "from_fasta", "empty_reference"}
            => contig_keys' = contig_keys]_vars

\* a store loaded from a file whose names are not in alphabetical order,
\* then grown by one name
C4_Witness ==
    /\ result.op = "add_contig"
    /\ result.status = "ok"
    /\ Len(filename) > 0
    /\ Len(contig_keys) = 3
    /\ contig_keys[1] = <<121>>
    /\ contig_keys[3] = <<120>>

\* C5: once a store holds a name, no later call changes the bytes stored
\* under it, and get_full_chromosome returns those bytes.
C5_SequencesFrozen ==
    [][pc = "live" =>
        /\ \A n \in DOMAIN contig_map :
            /\ contains_key(contig_map', n)
            /\ contig_map'[n] = contig_map[n]
        /\ (result'.op = "get_full_chromosome"
            /\ contains_key(contig_map, result'.key))
            => /\ result'.status = "ok"
               /\ result'.value = contig_map[result'.key]]_vars

\* a second name added to a store whose first name keeps a different,
\* non-empty sequence
C5_Witness ==
    /\ result.op = "add_contig"
    /\ result.status = "ok"
    /\ Len(contig_keys) = 2
    /\ \E n \in DOMAIN contig_map \ {result.key} :
        /\ contig_map[n] # <<>>
        /\ contig_map[n] # contig_map[result.key]

\* C6: no stored sequence holds a lower-case letter; after add_contig the
\* stored sequence is the given one upper-cased, of the same length, and
\* after from_fasta every stored sequence is that of a record of its name,
\* upper-cased.
C6_UpperCased ==
    pc = "live" =>
        /\ \A n \in DOMAIN contig_map :
            \A i \in 1..Len(contig_map[n]) : ~IsLower(contig_map[n][i])
        /\ (result.op = "add_contig" /\ result.status = "ok")
            => /\ contains_key(contig_map, result.key)
               /\ IsUpperOf(contig_map[result.key], result.seq)
               /\ get_full_chromosome(Self, result.key).value
                    = contig_map[result.key]
        /\ result.op = "from_fasta"
            => \A n \in DOMAIN contig_map :
                \E i \in 1..Len(ResultRecords.records) :
                    /\ ResultRecords.records[i].id = n
                    /\ IsUpperOf(contig_map[n], ResultRecords.records[i].seq)

\* add_contig of "Acgt" has stored "ACGT"
C6_Witness ==
    /\ result.op = "add_contig"
    /\ result.status = "ok"
    /\ result.seq = <<65, 99, 103, 116>>
    /\ contig_map[result.key] = <<65, 67, 71, 84>>

\* C7: get_slice of an existing contig of length L with start <= end returns
\* the bytes at [min(start, L), min(end, L)), without an error.
C7_SliceClamped ==
    (result.op = "get_slice" /\ contains_key(contig_map, result.key)
     /\ result.start <= result.end)
        => LET full == contig_map[result.key]
               L    == Len(full)
           IN  /\ result.status = "ok"
               /\ pc = "live"
               /\ result.value = SubSeq(full, Min(result.start, L) + 1,
                                        Min(result.end, L))
               /\ result.start >= L => result.value = <<>>

\* a slice of a non-empty contig with both offsets past its end
C7_Witness ==
    /\ result.op = "get_slice"
    /\ result.status = "ok"
    /\ contains_key(contig_map, result.key)
    /\ Len(contig_map[result.key]) > 0
    /\ result.start > Len(contig_map[result.key])
    /\ result.end > result.start
    /\ result.value = <<>>

\* C8: get_slice of an existing contig of length L with start = i <= L and
\* end >= L is the suffix of the whole contig from offset i; with i = 0 it is
\* the whole contig, and equals get_slice(name, 0, L).
C8_SliceSuffix ==
    (result.op = "get_slice" /\ contains_key(contig_map, result.key)
     /\ result.start <= Len(contig_map[result.key])
     /\ result.end >= Len(contig_map[result.key]))
        => LET full == get_full_chromosome(Self, result.key).value
               L    == Len(full)
           IN  /\ result.status = "ok"
               /\ Len(result.value) = L - result.start
               /\ \A k \in 1..(L - result.start) :
                    result.value[k] = full[result.start + k]
               /\ result.start = 0
                    => /\ result.value = full
                       /\ result.value = get_slice(Self, result.key, 0, L).value

\* a proper, non-empty suffix read with end past the contig's length
C8_Witness ==
    /\ result.op = "get_slice"
    /\ result.status = "ok"
    /\ contains_key(contig_map, result.key)
    /\ result.start > 0
    /\ result.start < Len(contig_map[result.key])
    /\ result.end > Len(contig_map[result.key])
    /\ result.value # <<>>

\* C9: get_slice of an existing contig with start > end panics, whatever the
\* contig's length and also when both offsets are past it.
C9_StartAfterEndPanics ==
    (result.op = "get_slice" /\ contains_key(contig_map, result.key)
     /\ result.start > result.end)
        => /\ result.status = "panic"
           /\ pc = "panicked"

\* a panic with start > end, both past the contig's length
C9_Witness ==
    /\ result.op = "get_slice"
    /\ result.status = "panic"
    /\ contains_key(contig_map, result.key)
    /\ result.start > result.end
    /\ result.end > Len(contig_map[result.key])

\* the file name ends in ".gz" after a non-empty stem
FinalExtensionIsGz(path) ==
    LET name == file_name(path)
        n    == Len(name)
    IN  n >= 4 /\ SubSeq(name, n - 2, n) = <<".", "g", "z">>

SameContigs(a, b) ==
    /\ a.status = b.status
    /\ a.self.contig_keys = b.self.contig_keys
    /\ a.self.contig_map = b.self.contig_map

\* the store that from_fasta makes of a file of the given bytes at path p
Loaded(p, bytes) == from_fasta([path |-> p, kind |-> "file", bytes |-> bytes])

\* the last call loaded g: its text with the plain reader, or the gzip file
\* with the gzip decoder
LoadedGzipFile(g) ==
    /\ result.op = "from_fasta"
    /\ result.file.kind = "file"
    /\ \/ result.decoder = "plain" /\ result.file.bytes = g.text
       \/ result.decoder = "gzip" /\ result.file.bytes = g.gz

\* C10: from_fasta uses the gzip decoder exactly when the final extension of
\* the path is "gz".  The load of a file that gzip or zlib wrote (one member
\* or two, a stored block, a block in the fixed code, a block with its own
\* codes, a header with a file name) succeeds and gives the key list and
\* the sequences that the load of its text as a plain file gives, whatever
\* the paths; the file of the test gives chr1 = ACGTACGT and chr2 = ACCATGTA
\* from either.  The text of any loaded file, loaded as a plain file and,
\* written as gzip files by gz_encodings, with the gzip decoder, gives the
\* key list and the sequences of the load, whatever the paths.
C10_GzipSameAsPlain ==
    (result.op = "from_fasta" /\ result.file.kind # "missing")
        => /\ result.decoder = "gzip" <=> FinalExtensionIsGz(result.file.path)
           /\ result.decoder = "plain" <=> ~FinalExtensionIsGz(result.file.path)
           /\ \A g \in GzipFiles :
                LoadedGzipFile(g)
                    => /\ result.status = "ok"
                       /\ \A p \in Paths :
                            SameContigs(Loaded(p, IF FinalExtensionIsGz(p)
                                                  THEN g.gz ELSE g.text),
                                        [status |-> "ok", self |-> Self])
           /\ LoadedGzipFile([text |-> FaTest, gz |-> GzTest])
                => /\ contig_keys = <<<<99, 104, 114, 49>>, <<99, 104, 114, 50>>>>
                   /\ contig_map[<<99, 104, 114, 49>>]
                        = <<65, 67, 71, 84, 65, 67, 71, 84>>
                   /\ contig_map[<<99, 104, 114, 50>>]
                        = <<65, 67, 67, 65, 84, 71, 84, 65>>
           /\ (result.status = "ok" /\ result.file.kind = "file")
                => LET text == IF result.decoder = "gzip"
                               THEN multi_gz_decode(result.file.bytes).data
                               ELSE result.file.bytes
                   IN  /\ contig_keys = Ids(fasta_records(StreamOk(text)).records)
                       /\ \A p \in Paths, bytes \in {text} \cup gz_encodings(text) :
                            (Loaded(p, bytes).decoder = "gzip" <=> bytes # text)
                                => SameContigs(Loaded(p, bytes),
                                               [status |-> "ok", self |-> Self])

\* the gzip file of the test, loaded with the gzip decoder into a store of
\* two names
C10_Witness ==
    /\ result.op = "from_fasta"
    /\ result.status = "ok"
    /\ result.decoder = "gzip"
    /\ result.file.bytes = GzTest
    /\ Cardinality(DOMAIN contig_map) = 2

====
